---- MODULE Spec2Model ----
(***************************************************************************)
(* A model of the grid robot of homework12: the Robot and its motion       *)
(* primitives (src/src/robot.rs), the reversible commands and the          *)
(* CommandList (src/src/command.rs), the Scanner and the Interpreter of    *)
(* the command language (src/src/interpreter.rs) and the prompt loop of    *)
(* examples/robot_interpreter.rs.                                          *)
(*                                                                         *)
(* Values.  A Result is [ok |-> TRUE, val |-> v] or [ok |-> FALSE,         *)
(* err |-> e]; an Option is [some |-> TRUE, val |-> v] or [some |-> FALSE].*)
(* A char is a string of one character and a text a sequence of chars.     *)
(* An i32 is an integer of I32_MIN..I32_MAX.  A u32 is kept in two 16-bit  *)
(* limbs [hi, lo] (value hi * 2^16 + lo), so that the whole 32-bit range   *)
(* is represented exactly.                                                  *)
(***************************************************************************)
EXTENDS Integers, Sequences, FiniteSets, TLC

VARIABLES
    robot,      \* the Robot: [x, y, direction, drawing]
    commands,   \* CommandList.commands of the list being built and run
    listFrom,   \* history: where `commands` comes from: "new", "add_command", "interpret"
    text,       \* the input text handed to Scanner::new / Interpreter::new
    source,     \* Scanner.source: the chars not yet consumed
    running,    \* run_prompt: TRUE while its loop runs
    last,       \* history: the last operation, its inputs and what it returned
    undo,       \* history: the robot before the latest execute_all and its result
    calls       \* history: number of execute_all / rollback_all calls made

vars == <<robot, commands, listFrom, text, source, running, last, undo, calls>>

----------------------------------------------------------------------------
(* Result and Option values *)

Ok(v) == [ok |-> TRUE, val |-> v]
Err(e) == [ok |-> FALSE, err |-> e]
Unit == "()"
Some(v) == [some |-> TRUE, val |-> v]
None == [some |-> FALSE]

(* error.rs: enum Error *)
OutOfBounds == [kind |-> "OutOfBounds"]
UnexpectedCharacter(ch) == [kind |-> "UnexpectedCharacter", ch |-> ch]
UnexpectedToken(token) == [kind |-> "UnexpectedToken", token |-> token]
InvalidCommand == [kind |-> "InvalidCommand"]
UndefinedCommand(buffer) == [kind |-> "UndefinedCommand", text |-> buffer]
InvalidCommandParameter(buffer) == [kind |-> "InvalidCommandParameter", text |-> buffer]

----------------------------------------------------------------------------
(* robot.rs *)

I32_MAX == 2147483647
I32_MIN == -I32_MAX - 1

Direction == {"Up", "Down", "Left", "Right"}

Robot_new(x, y, direction, drawing) ==
    [x |-> x, y |-> y, direction |-> direction, drawing |-> drawing]

Robot_default == Robot_new(0, 0, "Up", FALSE)

\* `v += 1` and `v -= 1` on an i32.  The result is shown as the wrapped value of
\* a build without overflow checks (a build with them panics instead); the
\* guards of move_forward keep both from happening.
Inc32(v) == IF v = I32_MAX THEN I32_MIN ELSE v + 1
Dec32(v) == IF v = I32_MIN THEN I32_MAX ELSE v - 1

\* Robot::move_forward without its four boundary checks.
move_forward_unchecked(r) ==
    CASE r.direction = "Up"    -> [res |-> Ok(Unit), robot |-> [r EXCEPT !.y = Inc32(r.y)]]
      [] r.direction = "Right" -> [res |-> Ok(Unit), robot |-> [r EXCEPT !.x = Inc32(r.x)]]
      [] r.direction = "Down"  -> [res |-> Ok(Unit), robot |-> [r EXCEPT !.y = Dec32(r.y)]]
      [] r.direction = "Left"  -> [res |-> Ok(Unit), robot |-> [r EXCEPT !.x = Dec32(r.x)]]

\* Robot::move_forward: the returned Result and the robot it leaves.
move_forward(r) ==
    CASE r.direction = "Up" ->
           IF r.y = I32_MAX THEN [res |-> Err(OutOfBounds), robot |-> r]
           ELSE [res |-> Ok(Unit), robot |-> [r EXCEPT !.y = Inc32(r.y)]]
      [] r.direction = "Right" ->
           IF r.x = I32_MAX THEN [res |-> Err(OutOfBounds), robot |-> r]
           ELSE [res |-> Ok(Unit), robot |-> [r EXCEPT !.x = Inc32(r.x)]]
      [] r.direction = "Down" ->
           IF r.y = I32_MIN THEN [res |-> Err(OutOfBounds), robot |-> r]
           ELSE [res |-> Ok(Unit), robot |-> [r EXCEPT !.y = Dec32(r.y)]]
      [] r.direction = "Left" ->
           IF r.x = I32_MIN THEN [res |-> Err(OutOfBounds), robot |-> r]
           ELSE [res |-> Ok(Unit), robot |-> [r EXCEPT !.x = Dec32(r.x)]]

\* Robot::turn_left with the Down and Right arms exchanged.
turn_left_swapped(r) ==
    [r EXCEPT !.direction =
        CASE r.direction = "Up"    -> "Left"
          [] r.direction = "Left"  -> "Down"
          [] r.direction = "Down"  -> "Up"
          [] r.direction = "Right" -> "Right"]

turn_left(r) ==
    [r EXCEPT !.direction =
        CASE r.direction = "Up"    -> "Left"
          [] r.direction = "Left"  -> "Down"
          [] r.direction = "Down"  -> "Right"
          [] r.direction = "Right" -> "Up"]

\* Robot::turn_right lifting the pen as it turns.
turn_right_pen_up(r) ==
    [r EXCEPT !.drawing = FALSE,
              !.direction =
        CASE r.direction = "Up"    -> "Right"
          [] r.direction = "Right" -> "Down"
          [] r.direction = "Down"  -> "Left"
          [] r.direction = "Left"  -> "Up"]

turn_right(r) ==
    [r EXCEPT !.direction =
        CASE r.direction = "Up"    -> "Right"
          [] r.direction = "Right" -> "Down"
          [] r.direction = "Down"  -> "Left"
          [] r.direction = "Left"  -> "Up"]

\* Robot::down_pen: `if !self.drawing { log::info!("Pen down"); self.drawing =
\* true; }`, the robot it leaves
down_pen(r) == IF ~r.drawing THEN [r EXCEPT !.drawing = TRUE] ELSE r

\* Robot::down_pen logging on every call, outside the `if`.
down_pen_log_always(r) == <<"Pen down">>

\* The pen events (`log::info!`) a call of Robot::down_pen emits.
down_pen_log(r) == IF ~r.drawing THEN <<"Pen down">> ELSE << >>

\* Robot::up_pen: `if self.drawing { log::info!("Pen up"); self.drawing =
\* false; }`, the robot it leaves
up_pen(r) == IF r.drawing THEN [r EXCEPT !.drawing = FALSE] ELSE r

\* The pen events a call of Robot::up_pen emits.
up_pen_log(r) == IF r.drawing THEN <<"Pen up">> ELSE << >>

----------------------------------------------------------------------------
(* u32 values: two 16-bit limbs *)

Limb == 2^16

U32(hi, lo) == [hi |-> hi, lo |-> lo]

\* The u32 of a small natural number (below 2^31).
U32FromNat(n) == U32(n \div Limb, n % Limb)

\* The loop count of `0..v` for a u32 below 2^31.
U32ToNat(v) == v.hi * Limb + v.lo

\* v % 4: 2^16 is a multiple of 4, so only the low limb counts.
U32Mod4(v) == v.lo % 4

U32_MAX == U32(Limb - 1, Limb - 1)

\* v * 10 + d wrapping modulo 2^32 instead of failing (wrapping_mul,
\* wrapping_add).
U32WrappingMul10Add(v, d) ==
    LET lo10 == v.lo * 10 + d
        hi10 == v.hi * 10 + (lo10 \div Limb)
    IN  Some(U32(hi10 % Limb, lo10 % Limb))

\* u32::checked_mul(10) followed by u32::checked_add(d), d a decimal digit.
U32CheckedMul10Add(v, d) ==
    LET lo10 == v.lo * 10 + d
        hi10 == v.hi * 10 + (lo10 \div Limb)
    IN  IF hi10 >= Limb THEN None ELSE Some(U32(hi10, lo10 % Limb))

----------------------------------------------------------------------------
(* command.rs *)

MoveCommand_new(distance) == [kind |-> "Move", distance |-> distance]

\* TurnLeftCommand::new keeping the count as given (no `% 4`), cut to the u8.
TurnLeftCommand_new_unnormalized(times) ==
    [kind |-> "TurnLeft", times |-> times.lo % 256]

\* `(times % 4) as u8`
TurnLeftCommand_new(times) == [kind |-> "TurnLeft", times |-> U32Mod4(times) % 256]

TurnRightCommand_new(times) == [kind |-> "TurnRight", times |-> U32Mod4(times) % 256]

DownPenCommand == [kind |-> "DownPen"]

UpPenCommand == [kind |-> "UpPen"]

\* `for _ in 0..n { robot.move_forward()?; }`: stops at the first Err, the steps
\* already taken kept.
RECURSIVE forward_loop(_, _)
forward_loop(r, n) ==
    IF n = 0 THEN [res |-> Ok(Unit), robot |-> r]
    ELSE LET s == move_forward(r)
         IN  IF s.res.ok THEN forward_loop(s.robot, n - 1) ELSE s

\* `for _ in 0..n { robot.turn_left(); }` and the same with turn_right
RECURSIVE turn_left_loop(_, _)
turn_left_loop(r, n) == IF n = 0 THEN r ELSE turn_left_loop(turn_left(r), n - 1)

RECURSIVE turn_right_loop(_, _)
turn_right_loop(r, n) == IF n = 0 THEN r ELSE turn_right_loop(turn_right(r), n - 1)

\* What a method `fn(&mut self, robot: &mut Robot) -> Result<(), Error>` of a
\* command returns and leaves: the Result, the robot and the command itself.
\* s holds the Result and the robot; no method of command.rs assigns to a
\* field of self, so the command is left as it was found.
called(self, s) == [res |-> s.res, robot |-> s.robot, command |-> self]

\* MoveCommand::execute putting the robot back where it was when a step fails.
MoveCommand_execute_atomic(c, r) ==
    IF forward_loop(r, U32ToNat(c.distance)).res.ok
    THEN called(c, forward_loop(r, U32ToNat(c.distance)))
    ELSE called(c, [res |-> forward_loop(r, U32ToNat(c.distance)).res, robot |-> r])

\* MoveCommand::execute counting its own distance down, one per step taken
\* (`while self.distance > 0 { robot.move_forward()?; self.distance -= 1; }`).
MoveCommand_execute_consuming(c, r) ==
    IF forward_loop(r, U32ToNat(c.distance)).res.ok
    THEN called([c EXCEPT !.distance = U32(0, 0)], forward_loop(r, U32ToNat(c.distance)))
    ELSE called(c, forward_loop(r, U32ToNat(c.distance)))

\* `for _ in 0..self.distance { robot.move_forward()?; } Ok(())`
MoveCommand_execute(c, r) == called(c, forward_loop(r, U32ToNat(c.distance)))

\* MoveCommand::rollback without the two turns before and after the steps.
MoveCommand_rollback_forward(c, r) == called(c, forward_loop(r, U32ToNat(c.distance)))

\* The end of MoveCommand::rollback turning back also when a step failed.
rollback_turn_back_always(s) ==
    [res |-> s.res, robot |-> turn_left(turn_left(s.robot))]

\* The end of MoveCommand::rollback, s the outcome of its loop: on Ok the two
\* turns back, on Err the return by `?`.
rollback_turn_back(s) ==
    IF s.res.ok
    THEN [res |-> Ok(Unit), robot |-> turn_left(turn_left(s.robot))]
    ELSE s

MoveCommand_rollback(c, r) ==
    called(c, rollback_turn_back(forward_loop(turn_left(turn_left(r)), U32ToNat(c.distance))))

TurnLeftCommand_execute(c, r) ==
    called(c, [res |-> Ok(Unit), robot |-> turn_left_loop(r, c.times)])

TurnLeftCommand_rollback(c, r) ==
    called(c, [res |-> Ok(Unit), robot |-> turn_right_loop(r, c.times)])

TurnRightCommand_execute(c, r) ==
    called(c, [res |-> Ok(Unit), robot |-> turn_right_loop(r, c.times)])

TurnRightCommand_rollback(c, r) ==
    called(c, [res |-> Ok(Unit), robot |-> turn_left_loop(r, c.times)])

DownPenCommand_execute(c, r) ==
    called(c, [res |-> Ok(Unit), robot |-> down_pen(r)])

\* DownPenCommand::rollback leaving the pen as it is (an empty rollback).
DownPenCommand_rollback_keep(c, r) ==
    called(c, [res |-> Ok(Unit), robot |-> r])

DownPenCommand_rollback(c, r) ==
    called(c, [res |-> Ok(Unit), robot |-> up_pen(r)])

UpPenCommand_execute(c, r) ==
    called(c, [res |-> Ok(Unit), robot |-> up_pen(r)])

UpPenCommand_rollback(c, r) ==
    called(c, [res |-> Ok(Unit), robot |-> down_pen(r)])

\* Command::execute and Command::rollback of a Box<dyn Command>: the call goes
\* to the implementation of the command's own type.
execute(c, r) ==
    CASE c.kind = "Move"      -> MoveCommand_execute(c, r)
      [] c.kind = "TurnLeft"  -> TurnLeftCommand_execute(c, r)
      [] c.kind = "TurnRight" -> TurnRightCommand_execute(c, r)
      [] c.kind = "DownPen"   -> DownPenCommand_execute(c, r)
      [] c.kind = "UpPen"     -> UpPenCommand_execute(c, r)

rollback(c, r) ==
    CASE c.kind = "Move"      -> MoveCommand_rollback(c, r)
      [] c.kind = "TurnLeft"  -> TurnLeftCommand_rollback(c, r)
      [] c.kind = "TurnRight" -> TurnRightCommand_rollback(c, r)
      [] c.kind = "DownPen"   -> DownPenCommand_rollback(c, r)
      [] c.kind = "UpPen"     -> UpPenCommand_rollback(c, r)

CommandList_new == << >>

\* add_command putting the command in front of the list (`insert(0, ..)`).
add_command_front(cs, command) == <<command>> \o cs

\* `self.commands.push(command)`
add_command(cs, command) == Append(cs, command)

\* The loop of execute_all going on to the later commands after an error and
\* returning the first error at the end.
RECURSIVE execute_from_keep_going(_, _, _)
execute_from_keep_going(cs, i, r) ==
    IF i > Len(cs) THEN [res |-> Ok(Unit), robot |-> r, trace |-> << >>, commands |-> cs]
    ELSE LET s == execute(cs[i], r)
             rest == execute_from_keep_going([cs EXCEPT ![i] = s.command], i + 1, s.robot)
         IN  [res |-> IF s.res.ok THEN rest.res ELSE s.res,
              robot |-> rest.robot,
              trace |-> <<i>> \o rest.trace,
              commands |-> rest.commands]

\* `for command in &mut self.commands { command.execute(robot)?; }` from the
\* command at index i on.  trace lists the indices of the commands called,
\* commands is the list as the calls leave it (each command is borrowed
\* `&mut`).
RECURSIVE execute_from(_, _, _)
execute_from(cs, i, r) ==
    IF i > Len(cs) THEN [res |-> Ok(Unit), robot |-> r, trace |-> << >>, commands |-> cs]
    ELSE LET s == execute(cs[i], r)
         IN  IF s.res.ok
             THEN LET rest == execute_from([cs EXCEPT ![i] = s.command], i + 1, s.robot)
                  IN  [rest EXCEPT !.trace = <<i>> \o @]
             ELSE [res |-> s.res, robot |-> s.robot, trace |-> <<i>>,
                   commands |-> [cs EXCEPT ![i] = s.command]]

execute_all(cs, r) == execute_from(cs, 1, r)

\* `for command in self.commands.iter_mut().rev() { command.rollback(robot)?; }`
\* from the command at index i down.
RECURSIVE rollback_from(_, _, _)
rollback_from(cs, i, r) ==
    IF i < 1 THEN [res |-> Ok(Unit), robot |-> r, trace |-> << >>, commands |-> cs]
    ELSE LET s == rollback(cs[i], r)
         IN  IF s.res.ok
             THEN LET rest == rollback_from([cs EXCEPT ![i] = s.command], i - 1, s.robot)
                  IN  [rest EXCEPT !.trace = <<i>> \o @]
             ELSE [res |-> s.res, robot |-> s.robot, trace |-> <<i>>,
                   commands |-> [cs EXCEPT ![i] = s.command]]

\* CommandList::rollback_all going through the list front to back.
rollback_all_in_order(cs, r) ==
    LET RECURSIVE go(_, _)
        go(i, rr) ==
            IF i > Len(cs)
            THEN [res |-> Ok(Unit), robot |-> rr, trace |-> << >>, commands |-> cs]
            ELSE LET s == rollback(cs[i], rr)
                 IN  IF s.res.ok
                     THEN LET rest == go(i + 1, s.robot)
                          IN  [rest EXCEPT !.trace = <<i>> \o @]
                     ELSE [res |-> s.res, robot |-> s.robot, trace |-> <<i>>,
                           commands |-> cs]
    IN  go(1, r)

rollback_all(cs, r) == rollback_from(cs, Len(cs), r)

----------------------------------------------------------------------------
(* interpreter.rs: Token, Scanner *)

Token_Move == [kind |-> "Move"]
Token_TurnLeft == [kind |-> "TurnLeft"]
Token_TurnRight == [kind |-> "TurnRight"]
Token_DownPen == [kind |-> "DownPen"]
Token_UpPen == [kind |-> "UpPen"]
Token_Number(v) == [kind |-> "Number", value |-> v]

\* The characters of the model: ASCII.  char::is_alphabetic is also true of the
\* letters beyond ASCII and char::is_whitespace of the Unicode spaces; the model
\* holds the ASCII members of each class.
AsciiLower == {"a", "b", "c", "d", "e", "f", "g", "h", "i", "j", "k", "l", "m",
               "n", "o", "p", "q", "r", "s", "t", "u", "v", "w", "x", "y", "z"}
AsciiUpper == {"A", "B", "C", "D", "E", "F", "G", "H", "I", "J", "K", "L", "M",
               "N", "O", "P", "Q", "R", "S", "T", "U", "V", "W", "X", "Y", "Z"}
AsciiDigit == {"0", "1", "2", "3", "4", "5", "6", "7", "8", "9"}
AsciiWhitespace == {" ", "\t", "\n", "\r", "\f"}

is_alphabetic(ch) == ch \in AsciiLower \cup AsciiUpper
is_ascii_digit(ch) == ch \in AsciiDigit
is_whitespace(ch) == ch \in AsciiWhitespace

\* char::to_digit(10) of an ASCII digit
DigitValue(ch) ==
    CASE ch = "0" -> 0 [] ch = "1" -> 1 [] ch = "2" -> 2 [] ch = "3" -> 3
      [] ch = "4" -> 4 [] ch = "5" -> 5 [] ch = "6" -> 6 [] ch = "7" -> 7
      [] ch = "8" -> 8 [] ch = "9" -> 9

\* The digits of str::parse::<u32> from index i on, acc the value so far: a
\* char that is no digit, or a value beyond the u32, gives None (the Err arm).
RECURSIVE parse_digits(_, _, _)
parse_digits(buffer, i, acc) ==
    IF i > Len(buffer) THEN Some(acc)
    ELSE IF ~is_ascii_digit(buffer[i]) THEN None
    ELSE LET m == U32CheckedMul10Add(acc, DigitValue(buffer[i]))
         IN  IF m.some THEN parse_digits(buffer, i + 1, m.val) ELSE None

\* buffer.parse::<u32>(): the empty string is an error, one leading '+' is
\* allowed before the digits, and at least one digit is needed.
parse_u32(buffer) ==
    IF buffer = << >> THEN None
    ELSE IF buffer[1] = "+"
         THEN IF Len(buffer) = 1 THEN None ELSE parse_digits(buffer, 2, U32(0, 0))
    ELSE parse_digits(buffer, 1, U32(0, 0))

Scanner_new(input) == input

\* Scanner::next_char: `self.source.next()`
next_char(src) ==
    IF src = << >> THEN [ch |-> None, source |-> src]
    ELSE [ch |-> Some(Head(src)), source |-> Tail(src)]

\* The loop of scan_keyword with a break at the first char that is no letter.
RECURSIVE accumulate_letters(_, _)
accumulate_letters(buffer, src) ==
    LET n == next_char(src)
    IN  IF n.ch.some /\ is_alphabetic(n.ch.val)
        THEN accumulate_letters(Append(buffer, n.ch.val), n.source)
        ELSE [buffer |-> buffer, source |-> n.source]

\* `while let Some(next_ch) = self.next_char() { if !next_ch.is_whitespace()
\* { buffer.push(next_ch) } else { break } }`, the loop of scan_keyword and of
\* scan_number: it ends at the end of input or having consumed one whitespace.
RECURSIVE accumulate(_, _)
accumulate(buffer, src) ==
    LET n == next_char(src)
    IN  IF n.ch.some /\ ~is_whitespace(n.ch.val)
        THEN accumulate(Append(buffer, n.ch.val), n.source)
        ELSE [buffer |-> buffer, source |-> n.source]

KW_move == <<"m", "o", "v", "e">>
KW_turn_left == <<"t", "u", "r", "n", "_", "l", "e", "f", "t">>
KW_turn_right == <<"t", "u", "r", "n", "_", "r", "i", "g", "h", "t">>
KW_down_pen == <<"d", "o", "w", "n", "_", "p", "e", "n">>
KW_up_pen == <<"u", "p", "_", "p", "e", "n">>

\* The `match buffer.as_str()` of scan_keyword
match_keyword(buffer) ==
    IF buffer = KW_move THEN Ok(Token_Move)
    ELSE IF buffer = KW_turn_left THEN Ok(Token_TurnLeft)
    ELSE IF buffer = KW_turn_right THEN Ok(Token_TurnRight)
    ELSE IF buffer = KW_down_pen THEN Ok(Token_DownPen)
    ELSE IF buffer = KW_up_pen THEN Ok(Token_UpPen)
    ELSE Err(UndefinedCommand(buffer))

\* Scanner::scan_keyword: the Result and the source left.
keyword_of(a) == [res |-> match_keyword(a.buffer), source |-> a.source]

scan_keyword(ch, src) == keyword_of(accumulate(<<ch>>, src))

\* The `match buffer.parse::<u32>()` of scan_number
match_number(buffer, number) ==
    IF number.some THEN Ok(Token_Number(number.val))
    ELSE Err(InvalidCommandParameter(buffer))

number_of(a) == [res |-> match_number(a.buffer, parse_u32(a.buffer)), source |-> a.source]

\* Scanner::scan_number reading from a clone of the source and leaving the
\* source itself at the first char of the number.
scan_number_clone(ch, src) ==
    [res |-> number_of(accumulate(<<ch>>, src)).res, source |-> <<ch>> \o src]

\* Scanner::scan_number
scan_number(ch, src) == number_of(accumulate(<<ch>>, src))

\* `break Some(self.scan_...(ch)?)` followed by `Ok(token)`
some_token(k) ==
    [res |-> IF k.res.ok THEN Ok(Some(k.res.val)) ELSE k.res, source |-> k.source]

RECURSIVE next_token(_)

\* The `match ch` of next_token with the last arm going on to the next char,
\* as the whitespace arm does, instead of breaking with the error.
next_token_match_skip(n) ==
    IF ~n.ch.some THEN [res |-> Ok(None), source |-> n.source]
    ELSE IF is_alphabetic(n.ch.val) THEN some_token(scan_keyword(n.ch.val, n.source))
    ELSE IF is_ascii_digit(n.ch.val) THEN some_token(scan_number(n.ch.val, n.source))
    ELSE next_token(n.source)

\* The `match ch` of next_token with the whitespace arm breaking with None
\* instead of going on to the next char.
next_token_match_stop(n) ==
    IF ~n.ch.some THEN [res |-> Ok(None), source |-> n.source]
    ELSE IF is_alphabetic(n.ch.val) THEN some_token(scan_keyword(n.ch.val, n.source))
    ELSE IF is_ascii_digit(n.ch.val) THEN some_token(scan_number(n.ch.val, n.source))
    ELSE IF is_whitespace(n.ch.val) THEN [res |-> Ok(None), source |-> n.source]
    ELSE [res |-> Err(UnexpectedCharacter(n.ch.val)), source |-> n.source]

\* The `match ch` of next_token for the Option n of next_char
next_token_match(n) ==
    IF ~n.ch.some THEN [res |-> Ok(None), source |-> n.source]
    ELSE IF is_alphabetic(n.ch.val) THEN some_token(scan_keyword(n.ch.val, n.source))
    ELSE IF is_ascii_digit(n.ch.val) THEN some_token(scan_number(n.ch.val, n.source))
    ELSE IF is_whitespace(n.ch.val) THEN next_token(n.source)
    ELSE [res |-> Err(UnexpectedCharacter(n.ch.val)), source |-> n.source]

\* Scanner::next_token: Result<Option<Token>, Error> and the source left.
next_token(src) == next_token_match(next_char(src))

----------------------------------------------------------------------------
(* interpreter.rs: Interpreter *)

\* The arms for the argument with the two error arms exchanged: InvalidCommand
\* for a token that is no number, UnexpectedToken of the keyword's own kind at
\* the end of input.
number_arms_swapped(a) ==
    IF ~a.res.ok THEN a
    ELSE IF ~a.res.val.some
    THEN [res |-> Err(UnexpectedToken(Token_Move)), source |-> a.source]
    ELSE IF a.res.val.val.kind = "Number"
    THEN [res |-> Ok(a.res.val.val.value), source |-> a.source]
    ELSE [res |-> Err(InvalidCommand), source |-> a.source]

\* The three arms of `match self.next_token()?` for the argument of move,
\* turn_left and turn_right, a the Result of next_token and the source left:
\* the Result holds the number.
number_arms(a) ==
    IF ~a.res.ok THEN a
    ELSE IF ~a.res.val.some THEN [res |-> Err(InvalidCommand), source |-> a.source]
    ELSE IF a.res.val.val.kind = "Number"
    THEN [res |-> Ok(a.res.val.val.value), source |-> a.source]
    ELSE [res |-> Err(UnexpectedToken(a.res.val.val)), source |-> a.source]

number_argument(src) == number_arms(next_token(src))

\* The command interpret adds for a keyword token and its number.
command_of(token, number) ==
    CASE token.kind = "Move"      -> MoveCommand_new(number)
      [] token.kind = "TurnLeft"  -> TurnLeftCommand_new(number)
      [] token.kind = "TurnRight" -> TurnRightCommand_new(number)
      [] token.kind = "DownPen"   -> DownPenCommand
      [] token.kind = "UpPen"     -> UpPenCommand

RECURSIVE interpret_loop(_, _)

\* The arms Token::Move and Token::TurnLeft | Token::TurnRight once the
\* argument a is read: `?` and the two error arms return, the list dropped.
interpret_argument(token, a, command_list) ==
    IF ~a.res.ok THEN a
    ELSE interpret_loop(a.source, add_command(command_list, command_of(token, a.res.val)))

\* The body of the loop returning Ok with the list built so far where the
\* scanner fails or a number stands where a keyword is expected.
interpret_token_keep_partial(t, command_list) ==
    IF ~t.res.ok THEN [res |-> Ok(command_list), source |-> t.source]
    ELSE IF ~t.res.val.some THEN [res |-> Ok(command_list), source |-> t.source]
    ELSE IF t.res.val.val.kind \in {"Move", "TurnLeft", "TurnRight"}
    THEN interpret_argument(t.res.val.val, number_argument(t.source), command_list)
    ELSE IF t.res.val.val.kind \in {"DownPen", "UpPen"}
    THEN interpret_loop(t.source,
             add_command(command_list, command_of(t.res.val.val, U32(0, 0))))
    ELSE [res |-> Ok(command_list), source |-> t.source]

\* The body of the loop for the Result t of next_token.
interpret_token(t, command_list) ==
    IF ~t.res.ok THEN t
    ELSE IF ~t.res.val.some THEN [res |-> Ok(command_list), source |-> t.source]
    ELSE IF t.res.val.val.kind \in {"Move", "TurnLeft", "TurnRight"}
    THEN interpret_argument(t.res.val.val, number_argument(t.source), command_list)
    ELSE IF t.res.val.val.kind \in {"DownPen", "UpPen"}
    THEN interpret_loop(t.source,
             add_command(command_list, command_of(t.res.val.val, U32(0, 0))))
    ELSE [res |-> Err(UnexpectedToken(t.res.val.val)), source |-> t.source]

\* The `while let Some(token) = self.next_token()?` loop of interpret, with the
\* list built so far.
interpret_loop(src, command_list) == interpret_token(next_token(src), command_list)

Interpreter_new(input) == Scanner_new(input)

\* Interpreter::interpret on an interpreter whose scanner holds src.
interpret(src) == interpret_loop(src, CommandList_new)

----------------------------------------------------------------------------
(* Inputs *)

\* Words per input text of the scanner's and interpreter's specification.
MaxWords == 3

W_fly == <<"f", "l", "y">>
W_move_at_10 == <<"m", "o", "v", "e", "@", "1", "0">>
W_at == <<"@">>
N_1 == <<"1">>
N_2 == <<"2">>
N_5 == <<"5">>
N_123abc == <<"1", "2", "3", "a", "b", "c">>
N_u32_max == <<"4", "2", "9", "4", "9", "6", "7", "2", "9", "5">>
N_u32_over == <<"4", "2", "9", "4", "9", "6", "7", "2", "9", "6">>

\* The words a text is made of.  The empty word puts whitespace at the start
\* or the end of a text, or two separators in a row.
Words == {KW_move, KW_turn_left, KW_turn_right, KW_down_pen, KW_up_pen,
          W_fly, W_move_at_10, W_at,
          N_5, N_123abc, N_u32_max, N_u32_over, << >>}

\* What stands between two words: a space, or a tab and a newline.
Separators == {<<" ">>, <<"\t", "\n">>}

RECURSIVE Join(_, _)
Join(ws, sep) ==
    IF ws = << >> THEN << >>
    ELSE IF Len(ws) = 1 THEN ws[1]
    ELSE ws[1] \o sep \o Join(Tail(ws), sep)

TextsOver(W, n) ==
    {Join(ws, sep) : ws \in UNION {[1..k -> W] : k \in 0..n}, sep \in Separators}

Texts == TextsOver(Words, MaxWords)

\* Largest distance given to MoveCommand::new and largest count given to
\* TurnLeftCommand::new and TurnRightCommand::new.
MaxDistance == 2
MaxTimes == 5

\* The constructor calls whose commands are given to execute, rollback and
\* add_command: the constructor and its argument.
CommandArgs ==
    {[ctor |-> "Move", n |-> n] : n \in 0..MaxDistance}
        \cup {[ctor |-> "TurnLeft", n |-> n] : n \in 0..MaxTimes}
        \cup {[ctor |-> "TurnRight", n |-> n] : n \in 0..MaxTimes}
        \cup {[ctor |-> "DownPen", n |-> 0], [ctor |-> "UpPen", n |-> 0]}

Build(a) ==
    CASE a.ctor = "Move"      -> MoveCommand_new(U32FromNat(a.n))
      [] a.ctor = "TurnLeft"  -> TurnLeftCommand_new(U32FromNat(a.n))
      [] a.ctor = "TurnRight" -> TurnRightCommand_new(U32FromNat(a.n))
      [] a.ctor = "DownPen"   -> DownPenCommand
      [] a.ctor = "UpPen"     -> UpPenCommand

\* How far from 0, from I32_MIN and from I32_MAX the explored coordinates go.
MaxTravel == 1

Near(v) ==
    \/ v <= I32_MIN + MaxTravel
    \/ (-MaxTravel <= v /\ v <= MaxTravel)
    \/ v >= I32_MAX - MaxTravel

InWindow(r) == Near(r.x) /\ Near(r.y)

\* The coordinates given to Robot::new: the origin and both ends of the i32.
Anchors == {I32_MIN, 0, I32_MAX}

\* One statement lists and lines of the command language, some of them wrong
\* after a right start.
LineWords ==
    { << >>,
      <<KW_move, N_1>>,
      <<KW_move, N_2, KW_turn_left, N_5, KW_move, N_1>>,
      <<KW_turn_right, N_2, KW_move, N_2>>,
      <<KW_turn_left, N_1, KW_move, N_2, KW_turn_right, N_5>>,
      <<KW_down_pen, KW_move, N_1>>,
      <<KW_up_pen>>,
      <<KW_down_pen, W_fly>>,
      <<KW_move, N_1, KW_move>>,
      <<KW_turn_left, N_1, KW_move, KW_up_pen>>,
      <<KW_down_pen, N_5>>,
      <<KW_move, N_2, W_at>>,
      <<KW_move, N_1, N_123abc>> }

Lines == {Join(ws, <<" ">>) : ws \in LineWords}

----------------------------------------------------------------------------
(* The scanner and the interpreter on a text *)

NoUndo == [valid |-> FALSE]

InitText ==
    /\ robot = Robot_default
    /\ commands = CommandList_new
    /\ listFrom = "new"
    /\ text \in Texts
    /\ source = Scanner_new(text)
    /\ running = FALSE
    /\ last = [op |-> "new"]
    /\ undo = NoUndo
    /\ calls = 0

\* A call of Scanner::next_token, t what it returns and leaves; prev holds
\* what the call before returned when that was a call of next_token too, and
\* calls counts the calls that returned a token.
NextTokenReturns(t) ==
    /\ last.op # "interpret"
    /\ source' = t.source
    /\ last' = [op |-> "next_token", before |-> source, res |-> t.res,
                prev |-> IF last.op = "next_token" THEN Some(last.res) ELSE None]
    /\ calls' = IF t.res.ok /\ t.res.val.some THEN calls + 1 ELSE calls
    /\ UNCHANGED <<robot, commands, listFrom, text, running, undo>>

NextToken == NextTokenReturns(next_token(source))

\* A call of Interpreter::interpret; the caller keeps the list of an Ok.  The
\* text is held either by a Scanner, whose next_token is called, or by an
\* Interpreter, whose scanner is private to it and only read by interpret.
InterpretReturns(i) ==
    /\ last.op # "next_token"
    /\ source' = i.source
    /\ last' = [op |-> "interpret", before |-> source, res |-> i.res]
    /\ commands' = IF i.res.ok THEN i.res.val ELSE commands
    /\ listFrom' = IF i.res.ok THEN "interpret" ELSE listFrom
    /\ undo' = IF i.res.ok THEN NoUndo ELSE undo
    /\ UNCHANGED <<robot, text, running, calls>>

Interpret == InterpretReturns(interpret(source))

NextText == NextToken \/ Interpret

SpecText == InitText /\ [][NextText]_vars

----------------------------------------------------------------------------
(* The Robot's operations and single commands on a robot *)

\* Longest run of turns in one direction that is counted.
MaxTurnRun == 8

InitRobot ==
    /\ robot \in {Robot_new(x, y, d, p) :
                     x \in Anchors, y \in Anchors, d \in Direction, p \in BOOLEAN}
    /\ commands = CommandList_new
    /\ listFrom = "new"
    /\ text = << >>
    /\ source = << >>
    /\ running = FALSE
    /\ last = [op |-> "new"]
    /\ undo = NoUndo
    /\ calls = 0

Turns == {"turn_left", "turn_right"}

\* History of a turn: how many turns in this direction came in a row, the
\* heading before the first of them, and the turn just before if there was one.
TurnHistory(op) ==
    [run  |-> IF last.op = op THEN last.run + 1 ELSE 1,
     from |-> IF last.op = op THEN last.from ELSE robot.direction,
     prev |-> IF last.op \in Turns
              THEN [op |-> last.op, direction |-> last.pre.direction]
              ELSE [op |-> "none"]]

RunBelowMax(op) == last.op = op => last.run < MaxTurnRun

MoveForwardReturns(m) ==
    /\ InWindow(m.robot)
    /\ robot' = m.robot
    /\ last' = [op |-> "move_forward", pre |-> robot, res |-> m.res]
    /\ UNCHANGED <<commands, listFrom, text, source, running, undo, calls>>

MoveForward == MoveForwardReturns(move_forward(robot))

TurnLeft ==
    /\ RunBelowMax("turn_left")
    /\ robot' = turn_left(robot)
    /\ last' = [op |-> "turn_left", pre |-> robot, res |-> Ok(Unit)]
                  @@ TurnHistory("turn_left")
    /\ UNCHANGED <<commands, listFrom, text, source, running, undo, calls>>

TurnRight ==
    /\ RunBelowMax("turn_right")
    /\ robot' = turn_right(robot)
    /\ last' = [op |-> "turn_right", pre |-> robot, res |-> Ok(Unit)]
                  @@ TurnHistory("turn_right")
    /\ UNCHANGED <<commands, listFrom, text, source, running, undo, calls>>

DownPen ==
    /\ robot' = down_pen(robot)
    /\ last' = [op |-> "down_pen", pre |-> robot, res |-> Ok(Unit),
                log |-> down_pen_log(robot)]
    /\ UNCHANGED <<commands, listFrom, text, source, running, undo, calls>>

UpPen ==
    /\ robot' = up_pen(robot)
    /\ last' = [op |-> "up_pen", pre |-> robot, res |-> Ok(Unit),
                log |-> up_pen_log(robot)]
    /\ UNCHANGED <<commands, listFrom, text, source, running, undo, calls>>

\* History of a call on a command: the call just before, when it was a call on
\* the same command, and the pen state it started from.
CallBefore(a) ==
    IF last.op \in {"execute", "rollback"} /\ last.arg = a
    THEN [op |-> last.op, drawing |-> last.pre.drawing]
    ELSE [op |-> "none"]

\* The command a call is made on: the one the call before was made on and
\* left, when that was built by the same constructor call, else a new one.
Held(a) ==
    IF last.op \in {"execute", "rollback"} /\ last.arg = a THEN last.after ELSE Build(a)

\* Command::execute / Command::rollback of the command built by the
\* constructor call a, e what the call returns and leaves; cmd is the command
\* before the call and after the command it leaves.
CommandReturns(op, a, e) ==
    /\ InWindow(e.robot)
    /\ robot' = e.robot
    /\ last' = [op |-> op, arg |-> a, cmd |-> Held(a), pre |-> robot, res |-> e.res,
                after |-> e.command, prev |-> CallBefore(a)]
    /\ UNCHANGED <<commands, listFrom, text, source, running, undo, calls>>

Execute == \E a \in CommandArgs : CommandReturns("execute", a, execute(Held(a), robot))

Rollback == \E a \in CommandArgs : CommandReturns("rollback", a, rollback(Held(a), robot))

NextRobot ==
    \/ MoveForward
    \/ TurnLeft
    \/ TurnRight
    \/ DownPen
    \/ UpPen
    \/ Execute
    \/ Rollback

SpecRobot == InitRobot /\ [][NextRobot]_vars

----------------------------------------------------------------------------
(* A CommandList built, executed and rolled back (examples/robot_commands.rs) *)

\* Longest list built with add_command, and number of execute_all and
\* rollback_all calls made on it.
MaxCommands == 2
MaxCalls == 2

\* The robots a list is run on: at the origin, and one or no step from the
\* upper and the lower end of both coordinates.
ListRobots ==
    {Robot_new(p[1], p[2], d, FALSE) :
        p \in {<<0, 0>>, <<I32_MAX, I32_MAX - 1>>, <<I32_MIN + 1, I32_MIN>>},
        d \in Direction}

Init ==
    /\ robot \in ListRobots
    /\ commands = CommandList_new
    /\ listFrom = "new"
    /\ text = << >>
    /\ source = << >>
    /\ running = FALSE
    /\ last = [op |-> "new"]
    /\ undo = NoUndo
    /\ calls = 0

\* The list is built first and run afterwards, as main does: no command is
\* added, and no other list taken, once execute_all or rollback_all has run.
Building == calls = 0

\* Interpreter::new(line).interpret() for a line, the list kept by the caller.
InterpretLineReturns(line, i) ==
    /\ Building
    /\ source' = i.source
    /\ last' = [op |-> "interpret", before |-> line, res |-> i.res]
    /\ commands' = IF i.res.ok THEN i.res.val ELSE commands
    /\ listFrom' = IF i.res.ok THEN "interpret" ELSE listFrom
    /\ undo' = IF i.res.ok THEN NoUndo ELSE undo
    /\ UNCHANGED <<robot, text, running, calls>>

InterpretLine ==
    \E line \in Lines : InterpretLineReturns(line, interpret(Interpreter_new(line)))

AddCommand ==
    \E a \in CommandArgs :
        /\ Building
        /\ Len(commands) < MaxCommands
        /\ commands' = add_command(commands, Build(a))
        /\ listFrom' = "add_command"
        /\ last' = [op |-> "add_command", arg |-> a, before |-> commands]
        /\ undo' = NoUndo
        /\ UNCHANGED <<robot, text, source, running, calls>>

ExecuteAllReturns(e) ==
    /\ calls < MaxCalls
    /\ robot' = e.robot
    /\ last' = [op |-> "execute_all", pre |-> robot, res |-> e.res, trace |-> e.trace]
    /\ undo' = [valid |-> TRUE, pre |-> robot, res |-> e.res, trace |-> e.trace]
    /\ commands' = e.commands
    /\ calls' = calls + 1
    /\ UNCHANGED <<listFrom, text, source, running>>

ExecuteAll == ExecuteAllReturns(execute_all(commands, robot))

RollbackAllReturns(e) ==
    /\ calls < MaxCalls
    /\ robot' = e.robot
    /\ last' = [op |-> "rollback_all", pre |-> robot, res |-> e.res,
                trace |-> e.trace, undo |-> undo]
    /\ undo' = NoUndo
    /\ commands' = e.commands
    /\ calls' = calls + 1
    /\ UNCHANGED <<listFrom, text, source, running>>

\* rollback_all undoing only what the execute_all before it did: the commands
\* that execute_all ran to their end, the failing one and those after it left
\* alone.
RollbackAll_executed_only ==
    RollbackAllReturns(
        rollback_from(commands,
                      IF undo.valid
                      THEN (IF undo.res.ok THEN Len(undo.trace) ELSE Len(undo.trace) - 1)
                      ELSE Len(commands),
                      robot))

RollbackAll == RollbackAllReturns(rollback_all(commands, robot))

Next ==
    \/ InterpretLine
    \/ AddCommand
    \/ ExecuteAll
    \/ RollbackAll

Spec == Init /\ [][Next]_vars

----------------------------------------------------------------------------
(* The prompt loop (examples/robot_interpreter.rs) *)

\* Lines read by one run of the prompt.
MaxLines == 2

\* run_prompt works on the robot of main, Robot::default(), for as long as
\* the prompt runs; the robots here are that robot and the ones the lines
\* `move 2147483646` and `turn_right 2` followed by `move 2147483647` leave.
PromptRobots ==
    {Robot_default,
     Robot_new(0, I32_MAX - 1, "Up", FALSE),
     Robot_new(0, I32_MIN + 1, "Down", FALSE)}

InitPrompt ==
    /\ robot \in PromptRobots
    /\ commands = CommandList_new
    /\ listFrom = "new"
    /\ text = << >>
    /\ source = << >>
    /\ running = TRUE
    /\ last = [op |-> "new"]
    /\ undo = NoUndo
    /\ calls = 0

\* `Ok(mut commands) => { commands.execute_all(&mut robot)?; }`: an Err of
\* execute_all is returned by run_prompt, which ends its loop.
PromptExecuted(line, i, e) ==
    /\ robot' = e.robot
    /\ running' = e.res.ok
    /\ commands' = e.commands
    /\ last' = [op |-> "prompt_line", line |-> line, pre |-> robot, interp |-> i.res,
                exec |-> Some(e.res), trace |-> e.trace,
                eprintln |-> None,
                returned |-> IF e.res.ok THEN None ELSE Some(e.res)]

\* `Err(err) => eprintln!("{err}")`
PromptFailed(line, i) ==
    /\ robot' = robot
    /\ running' = TRUE
    /\ commands' = commands
    /\ last' = [op |-> "prompt_line", line |-> line, pre |-> robot, interp |-> i.res,
                exec |-> None, trace |-> << >>,
                eprintln |-> Some(i.res.err),
                returned |-> None]

PromptInterpreted(line, i) ==
    /\ IF i.res.ok
       THEN PromptExecuted(line, i, execute_all(i.res.val, robot))
       ELSE PromptFailed(line, i)
    /\ text' = << >>
    /\ source' = i.source
    /\ listFrom' = IF i.res.ok THEN "interpret" ELSE listFrom
    /\ calls' = calls + 1
    /\ UNCHANGED undo

\* One turn of the loop of run_prompt: a line is read into the buffer,
\* interpreted and executed, and the buffer cleared.
PromptLine ==
    \E line \in Lines :
        /\ running
        /\ calls < MaxLines
        /\ PromptInterpreted(line, interpret(Interpreter_new(line)))

NextPrompt == PromptLine

SpecPrompt == InitPrompt /\ [][NextPrompt]_vars

----------------------------------------------------------------------------
(* Properties of the robot and of its commands *)

MoveOrTurn(c) == c.kind \in {"Move", "TurnLeft", "TurnRight"}

OnlyMovesAndTurns(cs) == \A i \in 1..Len(cs) : MoveOrTurn(cs[i])

\* C1: for a list that interpret produced and that holds only Move, TurnLeft
\* and TurnRight commands, when execute_all returned Ok and rollback_all is run
\* next on the same robot, x, y, heading and pen state are again what they
\* were before execute_all.
C1_ExecuteThenRollbackRestores ==
    ( /\ last.op = "rollback_all"
      /\ last.undo.valid
      /\ last.undo.res.ok
      /\ listFrom = "interpret"
      /\ OnlyMovesAndTurns(commands) )
        => robot = last.undo.pre

\* C1 happens: a list of three moves and turns, interpreted from a line, was
\* executed, which moved and turned the robot, and then rolled back.
C1_Witness ==
    /\ last.op = "rollback_all"
    /\ last.undo.valid
    /\ last.undo.res.ok
    /\ listFrom = "interpret"
    /\ Len(commands) = 3
    /\ OnlyMovesAndTurns(commands)
    /\ last.pre.x # last.undo.pre.x
    /\ last.pre.y # last.undo.pre.y
    /\ last.pre.direction # last.undo.pre.direction
    /\ robot = last.undo.pre

\* The coordinate along the heading is at the end of its range.
AtExtreme(r) ==
    \/ r.direction = "Up" /\ r.y = I32_MAX
    \/ r.direction = "Right" /\ r.x = I32_MAX
    \/ r.direction = "Down" /\ r.y = I32_MIN
    \/ r.direction = "Left" /\ r.x = I32_MIN

\* C2: move_forward called with the coordinate along the heading at its
\* extreme returns OutOfBounds and leaves x, y, heading and pen state unchanged.
C2_MoveForwardAtExtremeFails ==
    (last.op = "move_forward" /\ AtExtreme(last.pre))
        => (last.res = Err(OutOfBounds) /\ robot = last.pre)

\* C2 happens: move_forward was called heading Down with y at the minimum.
C2_Witness ==
    /\ last.op = "move_forward"
    /\ last.pre.direction = "Down"
    /\ last.pre.y = I32_MIN
    /\ ~last.res.ok

\* b is a or one more or one less than a, within the i32.
SameOrNeighbour(a, b) ==
    \/ b = a
    \/ a < I32_MAX /\ b = a + 1
    \/ a > I32_MIN /\ b = a - 1

\* a and b are at most d apart (d small), computed without leaving the i32.
AtMostApart(a, b, d) ==
    \/ a <= b /\ (a > I32_MAX - d \/ b <= a + d)
    \/ b <= a /\ (b > I32_MAX - d \/ a <= b + d)

\* The forward steps a command call makes at most.
StepsOf(c) == IF c.kind = "Move" THEN U32ToNat(c.distance) ELSE 0

\* C3: x and y stay within the i32 and the heading is one of the four
\* directions; a move_forward changes one coordinate by exactly one or nothing
\* at all, and a command changes a coordinate by no more than its steps: a
\* coordinate never goes from one end of the range to the other.
C3_CoordinatesBoundedNoWraparound ==
    /\ robot.x \in I32_MIN..I32_MAX
    /\ robot.y \in I32_MIN..I32_MAX
    /\ robot.direction \in Direction
    /\ last.op = "move_forward" =>
          /\ SameOrNeighbour(last.pre.x, robot.x)
          /\ SameOrNeighbour(last.pre.y, robot.y)
          /\ (robot.x = last.pre.x \/ robot.y = last.pre.y)
          /\ (last.res.ok => robot.x # last.pre.x \/ robot.y # last.pre.y)
    /\ last.op \in {"execute", "rollback"} =>
          /\ AtMostApart(last.pre.x, robot.x, StepsOf(last.cmd))
          /\ AtMostApart(last.pre.y, robot.y, StepsOf(last.cmd))

\* C3 happens: a MoveCommand of two steps was executed one step from the
\* maximum of x, and stopped at the maximum.
C3_Witness ==
    /\ last.op = "execute"
    /\ last.cmd.kind = "Move"
    /\ StepsOf(last.cmd) = 2
    /\ last.pre.x = I32_MAX - 1
    /\ last.pre.direction = "Right"
    /\ robot.x = I32_MAX
    /\ ~last.res.ok

\* The headings in the order of left turns, and the heading k left turns on.
LeftCycle == <<"Up", "Left", "Down", "Right">>

CycleIndex(d) == CHOOSE i \in 1..4 : LeftCycle[i] = d

LeftTurns(d, k) == LeftCycle[((CycleIndex(d) - 1 + k) % 4) + 1]

\* The heading after the turn command built by new(n) is executed or rolled
\* back from heading d: n mod 4 quarter turns, to the left when a TurnLeft is
\* executed or a TurnRight rolled back.
HeadingAfterTurns(a, op, d) ==
    LET k == a.n % 4
        left == (a.ctor = "TurnLeft") = (op = "execute")
    IN  LeftTurns(d, IF left THEN k ELSE 4 - k)

\* C4: TurnLeftCommand::new(n) and TurnRightCommand::new(n) store n mod 4, a
\* count of 0..3, and their execute and rollback leave the robot as those of
\* the command built by new(n mod 4) do, from every heading.
C4_TurnCountNormalizedMod4 ==
    (last.op \in {"execute", "rollback"} /\ last.arg.ctor \in {"TurnLeft", "TurnRight"})
        => /\ last.cmd.times = last.arg.n % 4
           /\ last.cmd.times \in 0..3
           /\ last.res.ok
           /\ robot = [last.pre EXCEPT
                          !.direction = HeadingAfterTurns(last.arg, last.op, @)]
           /\ LET same == Build([last.arg EXCEPT !.n = @ % 4])
              IN  robot = IF last.op = "execute"
                          THEN execute(same, last.pre).robot
                          ELSE rollback(same, last.pre).robot

\* C4 happens: TurnLeftCommand::new(5) was executed and turned the robot once.
C4_Witness ==
    /\ last.op = "execute"
    /\ last.arg = [ctor |-> "TurnLeft", n |-> 5]
    /\ last.cmd.times = 1
    /\ robot.direction = LeftTurns(last.pre.direction, 1)

\* C5: turn_left goes Up -> Left -> Down -> Right -> Up and turn_right the
\* other way round; a turn that follows a turn in the other direction gives
\* back the heading before the two, and so does every fourth turn in a row in
\* one direction.
C5_TurnsCycleAndInvert ==
    /\ last.op = "turn_left" => robot.direction = LeftTurns(last.pre.direction, 1)
    /\ last.op = "turn_right" => robot.direction = LeftTurns(last.pre.direction, 3)
    /\ (last.op \in Turns /\ last.prev.op \in Turns /\ last.prev.op # last.op)
          => robot.direction = last.prev.direction
    /\ (last.op \in Turns /\ last.run % 4 = 0) => robot.direction = last.from

\* C5 happens: the eighth turn_left in a row, from Down back to Down.
C5_Witness ==
    /\ last.op = "turn_left"
    /\ last.run = 8
    /\ last.from = "Down"
    /\ robot.direction = "Down"

----------------------------------------------------------------------------
(* The command language, read off a text word by word *)

White(ch) == ch \in {" ", "\t", "\n", "\r", "\f"}

DigitChars == <<"0", "1", "2", "3", "4", "5", "6", "7", "8", "9">>

IsDigit(ch) == \E d \in 1..10 : DigitChars[d] = ch

DigitOf(ch) == (CHOOSE d \in 1..10 : DigitChars[d] = ch) - 1

\* The index of the last char of the word of t that starts at index i.
WordEnd(t, i) ==
    CHOOSE j \in i..Len(t) :
        /\ \A k \in i..j : ~White(t[k])
        /\ j = Len(t) \/ White(t[j + 1])

RECURSIVE SplitWords(_)

SplitAt(t, j) == <<SubSeq(t, 1, j)>> \o SplitWords(SubSeq(t, j + 1, Len(t)))

\* The whitespace-separated words of a text, in order.
SplitWords(t) ==
    IF t = << >> THEN << >>
    ELSE IF White(t[1]) THEN SplitWords(Tail(t))
    ELSE SplitAt(t, WordEnd(t, 1))

AllDigits(w) == w # << >> /\ \A i \in 1..Len(w) : IsDigit(w[i])

\* A word of digits without its leading zeros ("0" for a word of zeros).
RECURSIVE StripZeros(_)
StripZeros(w) == IF Len(w) > 1 /\ w[1] = "0" THEN StripZeros(Tail(w)) ELSE w

U32MaxDecimal == <<"4", "2", "9", "4", "9", "6", "7", "2", "9", "5">>

\* s <= m for two digit words of one length
DecimalLeq(s, m) ==
    \/ s = m
    \/ \E i \in 1..Len(s) :
          /\ \A k \in 1..(i - 1) : s[k] = m[k]
          /\ DigitOf(s[i]) < DigitOf(m[i])

FitsStripped(s) ==
    \/ Len(s) < Len(U32MaxDecimal)
    \/ Len(s) = Len(U32MaxDecimal) /\ DecimalLeq(s, U32MaxDecimal)

\* The value of the digit word w is at most 4294967295.
FitsU32(w) == FitsStripped(StripZeros(w))

\* NUMBER of the grammar, fitting the u32
IsNumber(w) == AllDigits(w) /\ FitsU32(w)

\* The value of a digit word modulo 4, from its last two digits
DecMod4(w) ==
    IF Len(w) = 1 THEN DigitOf(w[1]) % 4
    ELSE (10 * DigitOf(w[Len(w) - 1]) + DigitOf(w[Len(w)])) % 4

\* The decimal digits of a u32, most significant first: v = 10 * q + r with
\* q and r from the long division of the two limbs.
RECURSIVE U32ToDecimal(_)

U32Decimal(q, r) ==
    IF q = U32(0, 0) THEN <<DigitChars[r + 1]>>
    ELSE Append(U32ToDecimal(q), DigitChars[r + 1])

U32ToDecimal(v) ==
    U32Decimal(U32(v.hi \div 10, ((v.hi % 10) * Limb + v.lo) \div 10),
               ((v.hi % 10) * Limb + v.lo) % 10)

ArgumentKeywords == {KW_move, KW_turn_left, KW_turn_right}

PenKeywords == {KW_down_pen, KW_up_pen}

\* The words make a program of the grammar: statements one after another.
RECURSIVE IsProgram(_)
IsProgram(ws) ==
    \/ ws = << >>
    \/ ws # << >> /\ ws[1] \in PenKeywords /\ IsProgram(Tail(ws))
    \/ Len(ws) >= 2 /\ ws[1] \in ArgumentKeywords /\ IsNumber(ws[2])
         /\ IsProgram(Tail(Tail(ws)))

\* The statements of a program, each the sequence of its words.
RECURSIVE Statements(_)
Statements(ws) ==
    IF ws = << >> THEN << >>
    ELSE IF ws[1] \in PenKeywords THEN <<SubSeq(ws, 1, 1)>> \o Statements(Tail(ws))
    ELSE <<SubSeq(ws, 1, 2)>> \o Statements(Tail(Tail(ws)))

\* The command c is the one the statement st asks for.
CommandMatches(c, st) ==
    CASE st[1] = KW_move ->
             /\ DOMAIN c = {"kind", "distance"}
             /\ c.kind = "Move"
             /\ U32ToDecimal(c.distance) = StripZeros(st[2])
      [] st[1] = KW_turn_left ->
             c = [kind |-> "TurnLeft", times |-> DecMod4(st[2])]
      [] st[1] = KW_turn_right ->
             c = [kind |-> "TurnRight", times |-> DecMod4(st[2])]
      [] st[1] = KW_down_pen -> c = [kind |-> "DownPen"]
      [] st[1] = KW_up_pen -> c = [kind |-> "UpPen"]

CommandsMatch(cs, sts) ==
    /\ Len(cs) = Len(sts)
    /\ \A i \in 1..Len(sts) : CommandMatches(cs[i], sts[i])

\* C6: for every text that is a program of the grammar (statements move N,
\* turn_left N, turn_right N, down_pen, up_pen separated by whitespace, N a
\* digit word that fits the u32), interpret returns Ok with a list that holds
\* exactly one command per statement, in the order of the statements, each of
\* the variant of its statement: Move with distance N, TurnLeft or TurnRight
\* with count N mod 4, DownPen, UpPen.
C6_ProgramGivesOneCommandPerStatement ==
    (last.op = "interpret" /\ IsProgram(SplitWords(last.before)))
        => /\ last.res.ok
           /\ CommandsMatch(last.res.val, Statements(SplitWords(last.before)))

\* C6 happens: "turn_left 5 up_pen", the words a tab and a newline apart, gave
\* a turn to the left with count 1 and then the pen up.
C6_Witness ==
    /\ last.op = "interpret"
    /\ last.before = Join(<<KW_turn_left, N_5, KW_up_pen>>, <<"\t", "\n">>)
    /\ last.res = Ok(<<[kind |-> "TurnLeft", times |-> 1], [kind |-> "UpPen"]>>)

\* The token of a keyword word
KeywordToken(w) ==
    CASE w = KW_move       -> [kind |-> "Move"]
      [] w = KW_turn_left  -> [kind |-> "TurnLeft"]
      [] w = KW_turn_right -> [kind |-> "TurnRight"]
      [] w = KW_down_pen   -> [kind |-> "DownPen"]
      [] w = KW_up_pen     -> [kind |-> "UpPen"]

\* The words left once the statements at the start of ws are taken away: the
\* place where interpret stands when it has read those statements.
RECURSIVE AfterStatements(_)
AfterStatements(ws) ==
    IF ws = << >> THEN << >>
    ELSE IF ws[1] \in PenKeywords THEN AfterStatements(Tail(ws))
    ELSE IF Len(ws) >= 2 /\ ws[1] \in ArgumentKeywords /\ IsNumber(ws[2])
    THEN AfterStatements(Tail(Tail(ws)))
    ELSE ws

\* interpret fails with UnexpectedToken of the number the word w spells.
UnexpectedNumber(res, w) ==
    /\ ~res.ok
    /\ DOMAIN res = {"ok", "err"}
    /\ DOMAIN res.err = {"kind", "token"}
    /\ res.err.kind = "UnexpectedToken"
    /\ DOMAIN res.err.token = {"kind", "value"}
    /\ res.err.token.kind = "Number"
    /\ U32ToDecimal(res.err.token.value) = StripZeros(w)

\* What C7 asks of the Result res of interpret, ws the words at the place where
\* a statement is to start.
GrammarError(res, ws) ==
    /\ (Len(ws) >= 2 /\ ws[1] \in ArgumentKeywords /\ ws[2] \in ArgumentKeywords \cup PenKeywords)
          => res = Err(UnexpectedToken(KeywordToken(ws[2])))
    /\ (Len(ws) = 1 /\ ws[1] \in ArgumentKeywords)
          => res = Err(InvalidCommand)
    /\ (Len(ws) >= 1 /\ IsNumber(ws[1]))
          => UnexpectedNumber(res, ws[1])

\* C7: in interpret, a move, turn_left or turn_right that is followed by a
\* token that is no Number fails with UnexpectedToken of that token; followed
\* by the end of the input it fails with InvalidCommand; and a Number where a
\* statement is to start fails with UnexpectedToken of that Number.
C7_GrammarErrors ==
    last.op = "interpret" => GrammarError(last.res, AfterStatements(SplitWords(last.before)))

\* C7 happens: "down_pen move up_pen" failed with UnexpectedToken(UpPen).
C7_Witness ==
    /\ last.op = "interpret"
    /\ last.before = Join(<<KW_down_pen, KW_move, KW_up_pen>>, <<" ">>)
    /\ last.res = Err(UnexpectedToken(Token_UpPen))

\* The Result holds an error and nothing else: no list comes with it.
OnlyError(res) == ~res.ok /\ DOMAIN res = {"ok", "err"}

\* C8: interpretation is all-or-nothing.  For a line that is no program of the
\* grammar, whatever statements it starts with, interpret returns an error and
\* no list, and the turn of the prompt loop that read the line executes no
\* command and leaves the robot as it was.
C8_AllOrNothing ==
    (last.op = "prompt_line" /\ ~IsProgram(SplitWords(last.line)))
        => /\ OnlyError(last.interp)
           /\ last.exec = None
           /\ last.trace = << >>
           /\ robot = last.pre

\* C8 happens: the second line read was "down_pen fly": it failed with
\* UndefinedCommand("fly") after a right down_pen, and the pen stayed up.
C8_Witness ==
    /\ last.op = "prompt_line"
    /\ calls = 2
    /\ last.line = Join(<<KW_down_pen, W_fly>>, <<" ">>)
    /\ last.interp = Err(UndefinedCommand(W_fly))
    /\ last.exec = None
    /\ ~last.pre.drawing
    /\ robot = last.pre

----------------------------------------------------------------------------
(* Properties of the scanner *)

\* The first word of a text: from its first char that is no whitespace up to
\* the next whitespace or the end (empty for a text of whitespace only).
RECURSIVE FirstWord(_)
FirstWord(t) ==
    IF t = << >> THEN << >>
    ELSE IF White(t[1]) THEN FirstWord(Tail(t))
    ELSE SubSeq(t, 1, WordEnd(t, 1))

LeadIs(w, Class(_)) == w # << >> /\ Class(w[1])

\* What C9 asks of the Result res of next_token for the first word w.
KeywordScan(res, w) ==
    IF w \in ArgumentKeywords \cup PenKeywords
    THEN res = Ok(Some(KeywordToken(w)))
    ELSE res = Err(UndefinedCommand(w))

\* C9: when the first char of a token is alphabetic, the scanner takes every
\* char up to the next whitespace or the end of the input, chars that are no
\* letters included, and returns the keyword token only if that text is
\* exactly move, turn_left, turn_right, down_pen or up_pen; otherwise it fails
\* with UndefinedCommand of the whole text taken.
C9_KeywordScan ==
    (last.op = "next_token" /\ LeadIs(FirstWord(last.before), is_alphabetic))
        => KeywordScan(last.res, FirstWord(last.before))

\* C9 happens: "move@10 5" failed with UndefinedCommand("move@10").
C9_Witness ==
    /\ last.op = "next_token"
    /\ last.before = Join(<<W_move_at_10, N_5>>, <<" ">>)
    /\ last.res = Err(UndefinedCommand(W_move_at_10))

\* next_token returned the Number token of the value the digit word w spells.
NumberOf(res, w) ==
    /\ res.ok
    /\ DOMAIN res = {"ok", "val"}
    /\ res.val.some
    /\ DOMAIN res.val.val = {"kind", "value"}
    /\ res.val.val.kind = "Number"
    /\ U32ToDecimal(res.val.val.value) = StripZeros(w)

\* What C10 asks of the Result res of next_token for the first word w.
NumberScan(res, w) ==
    IF IsNumber(w) THEN NumberOf(res, w) ELSE res = Err(InvalidCommandParameter(w))

\* C10: when the first char of a token is an ASCII digit, the scanner takes
\* every char up to the next whitespace or the end of the input and returns
\* Number(v) only if that text is all digits and its value v fits the u32;
\* otherwise it fails with InvalidCommandParameter of the text taken, and never
\* returns a wrapped or cut number.
C10_NumberScan ==
    (last.op = "next_token" /\ LeadIs(FirstWord(last.before), is_ascii_digit))
        => NumberScan(last.res, FirstWord(last.before))

\* C10 happens: "4294967296", one above the largest u32, failed with
\* InvalidCommandParameter("4294967296").
C10_Witness ==
    /\ last.op = "next_token"
    /\ FirstWord(last.before) = N_u32_over
    /\ last.res = Err(InvalidCommandParameter(N_u32_over))

\* A char that is neither a letter, a digit nor whitespace
OtherChar(ch) == ~is_alphabetic(ch) /\ ~is_ascii_digit(ch) /\ ~White(ch)

\* The chars a call of next_token took from the text before, given what it left.
Consumed(before, left) == SubSeq(before, 1, Len(before) - Len(left))

\* C11 as stated: whenever a call of next_token meets (takes from the input) a
\* char that is neither a letter, a digit nor whitespace, it fails with
\* UnexpectedCharacter of that char.
C11_AsStated ==
    last.op = "next_token"
        => \A i \in 1..Len(Consumed(last.before, source)) :
              OtherChar(last.before[i]) => last.res = Err(UnexpectedCharacter(last.before[i]))

\* C11, amended: whenever the first char of a token, the whitespace before it
\* skipped, is neither a letter, a digit nor whitespace, next_token fails with
\* UnexpectedCharacter of that char and returns no token.
C11_UnexpectedLeadCharacter ==
    (last.op = "next_token" /\ LeadIs(FirstWord(last.before), OtherChar))
        => /\ last.res = Err(UnexpectedCharacter(FirstWord(last.before)[1]))
           /\ OnlyError(last.res)

\* C11 happens: " @" failed with UnexpectedCharacter('@').
C11_Witness ==
    /\ last.op = "next_token"
    /\ last.before = <<" ", "@">>
    /\ last.res = Err(UnexpectedCharacter("@"))

\* The text is empty or holds whitespace only.
AllWhite(t) == \A i \in 1..Len(t) : White(t[i])

\* C12: next_token skips the whitespace before a token (a text that holds a
\* char that is no whitespace never gives Ok(None)) and returns Ok(None), no
\* error, when the input left is empty or whitespace only; a call of
\* next_token that follows one that returned Ok(None) returns Ok(None) too;
\* and interpret on an empty or whitespace-only text returns Ok with an empty
\* list.
C12_WhitespaceAndEndOfInput ==
    /\ (last.op = "next_token" /\ AllWhite(last.before)) => last.res = Ok(None)
    /\ (last.op = "next_token" /\ ~AllWhite(last.before)) => last.res # Ok(None)
    /\ (last.op = "next_token" /\ last.prev = Some(Ok(None))) => last.res = Ok(None)
    /\ (last.op = "interpret" /\ AllWhite(last.before)) => last.res = Ok(<< >>)

\* C12 happens: on a text of two tabs and two newlines a call of next_token
\* returned Ok(None), and the call after it, on what was left, did so again.
C12_Witness ==
    /\ text = <<"\t", "\n", "\t", "\n">>
    /\ last.op = "next_token"
    /\ last.prev = Some(Ok(None))
    /\ last.before = << >>
    /\ last.res = Ok(None)

----------------------------------------------------------------------------
(* Properties of the command list *)

\* The robot after execute was called on the first j commands of cs, one after
\* the other, starting from the robot r.
RECURSIVE RobotAfterExecutes(_, _, _)
RobotAfterExecutes(cs, j, r) ==
    IF j = 0 THEN r ELSE execute(cs[j], RobotAfterExecutes(cs, j - 1, r)).robot

\* The Result of execute of the command j of cs in its turn.
ResultOfExecute(cs, j, r) == execute(cs[j], RobotAfterExecutes(cs, j - 1, r)).res

\* What C13 asks of a call of execute_all on the list cs from the robot pre
\* that returned res, called execute on the commands of the indices trace and
\* left the robot post.
FailFastInOrder(cs, pre, res, trace, post) ==
    /\ Len(trace) <= Len(cs)
    /\ \A j \in 1..Len(trace) : trace[j] = j
    /\ \A j \in 1..(Len(trace) - 1) : ResultOfExecute(cs, j, pre).ok
    /\ post = RobotAfterExecutes(cs, Len(trace), pre)
    /\ res.ok => Len(trace) = Len(cs)
    /\ ~res.ok => /\ trace # << >>
                  /\ res = ResultOfExecute(cs, Len(trace), pre)
    /\ (trace # << >> /\ ~ResultOfExecute(cs, Len(trace), pre).ok) => ~res.ok

\* C13: execute_all calls execute on the commands in the order they were
\* added; at the first command whose execute returns an error it returns that
\* error, calls execute on no later command, and leaves on the robot what the
\* earlier commands and the failing command did to it.
C13_ExecuteAllFailFast ==
    last.op = "execute_all"
        => FailFastInOrder(commands, last.pre, last.res, last.trace, robot)

\* C13 happens: "turn_left 1 move 2 turn_right 5" one step from the upper end
\* of y: the turn was kept, the move took its one step and failed, and the
\* turn to the right was not made.
C13_Witness ==
    /\ last.op = "execute_all"
    /\ commands = <<TurnLeftCommand_new(U32(0, 1)), MoveCommand_new(U32(0, 2)),
                    TurnRightCommand_new(U32(0, 5))>>
    /\ last.pre = Robot_new(I32_MAX, I32_MAX - 1, "Right", FALSE)
    /\ last.res = Err(OutOfBounds)
    /\ last.trace = <<1, 2>>
    /\ robot = Robot_new(I32_MAX, I32_MAX, "Up", FALSE)

\* The robot after rollback was called on the last j commands of cs, the last
\* one first, starting from the robot r.
RECURSIVE RobotAfterRollbacks(_, _, _)
RobotAfterRollbacks(cs, j, r) ==
    IF j = 0 THEN r
    ELSE rollback(cs[Len(cs) - j + 1], RobotAfterRollbacks(cs, j - 1, r)).robot

\* The Result of the j-th call of rollback, on the command j from the end.
ResultOfRollback(cs, j, r) ==
    rollback(cs[Len(cs) - j + 1], RobotAfterRollbacks(cs, j - 1, r)).res

\* What C14 asks of a call of rollback_all on the list cs from the robot pre
\* that returned res, called rollback on the commands of the indices trace
\* and left the robot post.
FailFastInReverse(cs, pre, res, trace, post) ==
    /\ Len(trace) <= Len(cs)
    /\ \A j \in 1..Len(trace) : trace[j] = Len(cs) - j + 1
    /\ \A j \in 1..(Len(trace) - 1) : ResultOfRollback(cs, j, pre).ok
    /\ post = RobotAfterRollbacks(cs, Len(trace), pre)
    /\ res.ok => Len(trace) = Len(cs)
    /\ ~res.ok => /\ trace # << >>
                  /\ res = ResultOfRollback(cs, Len(trace), pre)
    /\ (trace # << >> /\ ~ResultOfRollback(cs, Len(trace), pre).ok) => ~res.ok

\* C14: rollback_all calls rollback on the commands in exactly the reverse of
\* the order they were added, the last added first; at the first rollback
\* that returns an error it returns that error, calls rollback on no command
\* added earlier, and leaves on the robot what the rollbacks made so far did.
C14_RollbackAllReverseFailFast ==
    last.op = "rollback_all"
        => FailFastInReverse(commands, last.pre, last.res, last.trace, robot)

\* C14 happens: "turn_left 1 move 2 turn_right 5" rolled back one step from
\* the lower end of x: the turn to the right was undone first, the move went
\* back its one step and failed, and the turn to the left was not undone.
C14_Witness ==
    /\ last.op = "rollback_all"
    /\ commands = <<TurnLeftCommand_new(U32(0, 1)), MoveCommand_new(U32(0, 2)),
                    TurnRightCommand_new(U32(0, 5))>>
    /\ last.pre = Robot_new(I32_MIN + 1, I32_MIN, "Down", FALSE)
    /\ last.res = Err(OutOfBounds)
    /\ last.trace = <<3, 2>>
    /\ robot = Robot_new(I32_MIN, I32_MIN, "Left", FALSE)

----------------------------------------------------------------------------
(* Properties of single commands *)

\* There are at least d free steps ahead of the robot r along its heading.
FitsAhead(r, d) ==
    CASE r.direction = "Up"    -> r.y <= I32_MAX - d
      [] r.direction = "Right" -> r.x <= I32_MAX - d
      [] r.direction = "Down"  -> r.y >= I32_MIN + d
      [] r.direction = "Left"  -> r.x >= I32_MIN + d

\* The robot r d steps further along its heading.
Displaced(r, d) ==
    CASE r.direction = "Up"    -> [r EXCEPT !.y = r.y + d]
      [] r.direction = "Right" -> [r EXCEPT !.x = r.x + d]
      [] r.direction = "Down"  -> [r EXCEPT !.y = r.y - d]
      [] r.direction = "Left"  -> [r EXCEPT !.x = r.x - d]

\* The robot r at the boundary ahead of it.
AtBoundaryAhead(r) ==
    CASE r.direction = "Up"    -> [r EXCEPT !.y = I32_MAX]
      [] r.direction = "Right" -> [r EXCEPT !.x = I32_MAX]
      [] r.direction = "Down"  -> [r EXCEPT !.y = I32_MIN]
      [] r.direction = "Left"  -> [r EXCEPT !.x = I32_MIN]

\* C15: MoveCommand::new(d).execute from a robot with k free steps ahead takes
\* min(d, k) steps: when d <= k it returns Ok and the robot is d further along
\* its heading; when d > k it returns OutOfBounds and the robot stands at the
\* boundary, the k steps taken not undone.
C15_MoveExecuteTakesMinSteps ==
    (last.op = "execute" /\ last.arg.ctor = "Move")
        => IF FitsAhead(last.pre, last.arg.n)
           THEN last.res = Ok(Unit) /\ robot = Displaced(last.pre, last.arg.n)
           ELSE last.res = Err(OutOfBounds) /\ robot = AtBoundaryAhead(last.pre)

\* C15 happens: MoveCommand::new(2) one step below the upper end of y took its
\* one step and failed.
C15_Witness ==
    /\ last.op = "execute"
    /\ last.arg = [ctor |-> "Move", n |-> 2]
    /\ last.pre.direction = "Up"
    /\ last.pre.y = I32_MAX - 1
    /\ last.res = Err(OutOfBounds)
    /\ robot.y = I32_MAX

\* C16: the rollback of DownPenCommand sets drawing to false and the rollback
\* of UpPenCommand sets it to true, whatever the pen state before the
\* command's execute; so execute followed by rollback of DownPenCommand on a
\* robot that was drawing, or of UpPenCommand on one that was not, ends with a
\* pen state other than the one before execute.
C16_PenRollbackSetsFixedState ==
    /\ (last.op = "rollback" /\ last.arg.ctor = "DownPen") => ~robot.drawing
    /\ (last.op = "rollback" /\ last.arg.ctor = "UpPen") => robot.drawing
    /\ ( /\ last.op = "rollback"
         /\ last.prev.op = "execute"
         /\ \/ last.arg.ctor = "DownPen" /\ last.prev.drawing
            \/ last.arg.ctor = "UpPen" /\ ~last.prev.drawing )
          => robot.drawing # last.prev.drawing

\* C16 happens: DownPenCommand was executed on a robot that was drawing and
\* then rolled back, and the robot is no longer drawing.
C16_Witness ==
    /\ last.op = "rollback"
    /\ last.arg.ctor = "DownPen"
    /\ last.prev = [op |-> "execute", drawing |-> TRUE]
    /\ last.pre.drawing
    /\ ~robot.drawing

\* The change from the robot p to the robot q: of position, of heading (in
\* quarter turns to the left) and of pen state.
Change(p, q) ==
    [dx |-> q.x - p.x,
     dy |-> q.y - p.y,
     turn |-> (CycleIndex(q.direction) - CycleIndex(p.direction) + 4) % 4,
     pen |-> <<p.drawing, q.drawing>>]

\* The change a first execution makes: that of the command as the constructor
\* call a builds it, executed on a robot at the origin with the heading and
\* the pen state of r.
FirstChange(a, r) ==
    Change(Robot_new(0, 0, r.direction, r.drawing),
           execute(Build(a), Robot_new(0, 0, r.direction, r.drawing)).robot)

\* C17: execute and rollback never change the distance or the turn count a
\* command stores: after any number of calls the command is the one its
\* constructor built.  So executing a Move, TurnLeft or TurnRight command
\* again, after other calls of its execute and rollback, changes position,
\* heading and pen state as its first execution from the same heading does,
\* when no boundary is hit.
C17_CommandsImmutableReplay ==
    /\ last.op \in {"execute", "rollback"}
          => last.after = last.cmd /\ last.after = Build(last.arg)
    /\ ( /\ last.op = "execute"
         /\ last.arg.ctor \in {"Move", "TurnLeft", "TurnRight"}
         /\ last.prev.op # "none"
         /\ last.res.ok )
          => Change(last.pre, robot) = FirstChange(last.arg, last.pre)

\* C17 happens: MoveCommand::new(1) was executed a second time, right after
\* its first execution, and took the robot from 0 to 1 as it had taken it from
\* -1 to 0.
C17_Witness ==
    /\ last.op = "execute"
    /\ last.arg = [ctor |-> "Move", n |-> 1]
    /\ last.prev.op = "execute"
    /\ last.after = MoveCommand_new(U32(0, 1))
    /\ last.pre.direction = "Up"
    /\ last.pre.y = 0
    /\ last.res.ok
    /\ robot.y = 1

----------------------------------------------------------------------------
(* Properties of the pen *)

\* C18: down_pen and up_pen are idempotent: down_pen with the pen down, and
\* up_pen with the pen up, change nothing of the robot and emit no pen event;
\* a pen event is emitted only by a call that flips the pen state.
C18_PenIdempotent ==
    /\ (last.op = "down_pen" /\ last.pre.drawing)
          => robot = last.pre /\ last.log = << >>
    /\ (last.op = "up_pen" /\ ~last.pre.drawing)
          => robot = last.pre /\ last.log = << >>
    /\ (last.op \in {"down_pen", "up_pen"} /\ last.log # << >>)
          => robot.drawing # last.pre.drawing

\* C18 happens: down_pen was called with the pen down, and nothing was logged.
C18_Witness ==
    /\ last.op = "down_pen"
    /\ last.pre.drawing
    /\ robot.drawing
    /\ last.log = << >>

----------------------------------------------------------------------------
(* Properties of the prompt loop *)

\* C19: in the prompt loop every error met while a line is handled, by
\* interpret or by execute_all on the robot the loop keeps, is printed to the
\* error stream, and the loop goes on to the next line with the robot kept: no
\* error of the core ends the loop.
C19_PromptPrintsEveryErrorAndGoesOn ==
    last.op = "prompt_line"
        => /\ ~last.interp.ok
                => /\ last.eprintln = Some(last.interp.err)
                   /\ running
                   /\ robot = last.pre
           /\ (last.exec # None /\ ~last.exec.val.ok)
                => /\ last.eprintln = Some(last.exec.val.err)
                   /\ running

----------------------------------------------------------------------------
(* Termination of the scanner and the interpreter *)

\* s is what is left of t when chars are taken from its front.
IsSuffix(s, t) ==
    /\ Len(s) <= Len(t)
    /\ s = SubSeq(t, Len(t) - Len(s) + 1, Len(t))

\* The tokens interpret read to build the list cs: two for a command with a
\* number, one for a pen command.
RECURSIVE TokensOf(_)
TokensOf(cs) ==
    IF cs = << >> THEN 0
    ELSE (IF MoveOrTurn(cs[1]) THEN 2 ELSE 1) + TokensOf(Tail(cs))

\* C20: on every text interpret ends with Ok of a list or with an Err.  Every
\* call of next_token that does not return Ok(None) takes at least one char
\* from the input, and no call gives back a char that was taken, so the tokens
\* returned are never more than the chars taken from the text, by calls of
\* next_token as by interpret.
C20_ScannerProgress ==
    /\ last.op \in {"next_token", "interpret"} => IsSuffix(source, last.before)
    /\ (last.op = "next_token" /\ last.res # Ok(None)) => Len(source) < Len(last.before)
    /\ calls <= Len(text) - Len(source)
    /\ last.op = "interpret"
          => \/ /\ last.res.ok
                /\ DOMAIN last.res = {"ok", "val"}
                /\ TokensOf(last.res.val) <= Len(last.before) - Len(source)
             \/ OnlyError(last.res)

\* C20 happens: the three tokens of "turn_left 5 up_pen" were returned one by
\* one, and the call after them returned Ok(None) with the text used up.
C20_Witness ==
    /\ text = Join(<<KW_turn_left, N_5, KW_up_pen>>, <<" ">>)
    /\ last.op = "next_token"
    /\ last.res = Ok(None)
    /\ calls = 3
    /\ source = << >>

----------------------------------------------------------------------------
(* Properties of execute_all followed by rollback_all *)

\* The robots p and q stand at the same place with the same heading.
SamePlaceAndHeading(p, q) ==
    /\ p.x = q.x
    /\ p.y = q.y
    /\ p.direction = q.direction

\* C21: when execute_all returned Ok and rollback_all is called next on the
\* same list and robot, whatever mix of Move, TurnLeft, TurnRight, DownPen and
\* UpPen commands the list holds, rollback_all returns Ok, having called
\* rollback on every command, and x, y and heading are again what they were
\* before execute_all (the pen state need not be).
C21_RollbackAfterOkExecuteSucceeds ==
    ( /\ last.op = "rollback_all"
      /\ last.undo.valid
      /\ last.undo.res.ok )
        => /\ last.res = Ok(Unit)
           /\ Len(last.trace) = Len(commands)
           /\ SamePlaceAndHeading(robot, last.undo.pre)

\* C21 happens: UpPenCommand and MoveCommand::new(1), executed from the robot
\* one step below the upper end of y, which took it to the end, and rolled
\* back: the robot is back one step below the end, now drawing.
C21_Witness ==
    /\ last.op = "rollback_all"
    /\ last.undo.valid
    /\ last.undo.res.ok
    /\ commands = <<UpPenCommand, MoveCommand_new(U32(0, 1))>>
    /\ last.undo.pre = Robot_new(I32_MAX, I32_MAX - 1, "Up", FALSE)
    /\ last.pre.y = I32_MAX
    /\ last.res.ok
    /\ robot = Robot_new(I32_MAX, I32_MAX - 1, "Up", TRUE)

\* The robot r after a Move of d steps is taken back: d steps against its
\* heading, the heading kept.
TakenBack(r, d) ==
    [Displaced([r EXCEPT !.direction = LeftTurns(@, 2)], d)
        EXCEPT !.direction = r.direction]

\* The robot r after the command c is undone in full.
Undone(c, r) ==
    CASE c.kind = "Move"      -> TakenBack(r, U32ToNat(c.distance))
      [] c.kind = "TurnLeft"  -> [r EXCEPT !.direction = LeftTurns(@, 4 - (c.times % 4))]
      [] c.kind = "TurnRight" -> [r EXCEPT !.direction = LeftTurns(@, c.times % 4)]
      [] c.kind = "DownPen"   -> [r EXCEPT !.drawing = FALSE]
      [] c.kind = "UpPen"     -> [r EXCEPT !.drawing = TRUE]

\* The robot r after the commands of cs from the index i down to the first are
\* undone in full, the last of them first.
RECURSIVE UndoneDownFrom(_, _, _)
UndoneDownFrom(cs, i, r) ==
    IF i < 1 THEN r ELSE UndoneDownFrom(cs, i - 1, Undone(cs[i], r))

\* C22: rollback_all called after an execute_all that failed part-way starts
\* with the last command of the list, reached by execute_all or not, and when
\* it returns Ok it has called rollback on every command of the list and the
\* robot is where undoing every command in full takes it from where
\* execute_all left it: also the commands never executed, and the whole
\* distance of the Move that stopped part-way.
C22_RollbackAllIgnoresWhatWasExecuted ==
    ( /\ last.op = "rollback_all"
      /\ last.undo.valid
      /\ ~last.undo.res.ok )
        => /\ last.trace # << >>
           /\ last.trace[1] = Len(commands)
           /\ last.res.ok =>
                 /\ Len(last.trace) = Len(commands)
                 /\ robot = UndoneDownFrom(commands, Len(commands), last.pre)

\* C22 happens: MoveCommand::new(2) and TurnLeftCommand::new(1) executed one
\* step below the upper end of y: the move took one step and failed, the turn
\* was never made.  rollback_all then undid the turn and went two steps back
\* along x: the robot is not where it was before execute_all.
C22_Witness ==
    /\ last.op = "rollback_all"
    /\ last.undo.valid
    /\ last.undo.res = Err(OutOfBounds)
    /\ last.undo.trace = <<1>>
    /\ commands = <<MoveCommand_new(U32(0, 2)), TurnLeftCommand_new(U32(0, 1))>>
    /\ last.undo.pre = Robot_new(I32_MAX, I32_MAX - 1, "Up", FALSE)
    /\ last.pre = Robot_new(I32_MAX, I32_MAX, "Up", FALSE)
    /\ last.trace = <<2, 1>>
    /\ last.res = Ok(Unit)
    /\ robot = Robot_new(I32_MAX - 2, I32_MAX, "Right", FALSE)
    /\ robot # last.undo.pre

----------------------------------------------------------------------------
(* Properties of MoveCommand::rollback and of the frame of each operation *)

\* The robot r turned round.
TurnedRound(r) == [r EXCEPT !.direction = LeftTurns(@, 2)]

\* C23: MoveCommand::new(d).rollback from a robot with at least d free steps
\* behind it returns Ok, the heading the one at the call and the position d
\* steps against that heading; with fewer free steps behind it returns
\* OutOfBounds, the robot turned round from its heading at the call and
\* standing at the boundary it walked back to, those steps not undone.
C23_MoveRollbackHeading ==
    (last.op = "rollback" /\ last.arg.ctor = "Move")
        => /\ last.res.ok =>
                 /\ robot.direction = last.pre.direction
                 /\ robot = TakenBack(last.pre, last.arg.n)
           /\ ~last.res.ok =>
                 /\ last.res = Err(OutOfBounds)
                 /\ robot.direction = LeftTurns(last.pre.direction, 2)
                 /\ robot.direction # last.pre.direction
                 /\ robot = AtBoundaryAhead(TurnedRound(last.pre))
           /\ last.res.ok <=> FitsAhead(TurnedRound(last.pre), last.arg.n)

\* C23 happens: MoveCommand::new(2) rolled back heading Up one step above the
\* lower end of y: it went the one step back, failed, and the robot is left
\* heading Down at the end.
C23_Witness ==
    /\ last.op = "rollback"
    /\ last.arg = [ctor |-> "Move", n |-> 2]
    /\ last.pre.direction = "Up"
    /\ last.pre.y = I32_MIN + 1
    /\ last.res = Err(OutOfBounds)
    /\ robot.direction = "Down"
    /\ robot.y = I32_MIN

\* C23 happens as well with Ok: MoveCommand::new(2) rolled back heading Right
\* at x = 1 left the robot at x = -1, heading Right.
C23_WitnessOk ==
    /\ last.op = "rollback"
    /\ last.arg = [ctor |-> "Move", n |-> 2]
    /\ last.pre.direction = "Right"
    /\ last.pre.x = 1
    /\ last.res = Ok(Unit)
    /\ robot.direction = "Right"
    /\ robot.x = -1

\* The robots p and q stand at the same place.
SamePlace(p, q) == p.x = q.x /\ p.y = q.y

\* Only the heading may differ between the robots p and q.
OnlyHeadingMayDiffer(p, q) == SamePlace(p, q) /\ p.drawing = q.drawing

\* Only the pen state may differ between the robots p and q.
OnlyPenMayDiffer(p, q) == SamePlace(p, q) /\ p.direction = q.direction

\* C24: turn_left and turn_right leave x, y and pen state as they found them;
\* down_pen and up_pen leave x, y and heading; a move_forward that returns Ok
\* changes the coordinate along the heading, and no other, by exactly one and
\* leaves heading and pen state; execute and rollback of the turn commands
\* leave what the turns leave, and those of the pen commands what the pen
\* operations leave.
C24_OperationsChangeOnlyTheirPart ==
    /\ last.op \in Turns => OnlyHeadingMayDiffer(robot, last.pre)
    /\ last.op \in {"down_pen", "up_pen"} => OnlyPenMayDiffer(robot, last.pre)
    /\ (last.op = "move_forward" /\ last.res.ok) =>
          /\ robot = Displaced(last.pre, 1)
          /\ (robot.x = last.pre.x) # (robot.y = last.pre.y)
          /\ robot.direction = last.pre.direction
          /\ robot.drawing = last.pre.drawing
    /\ ( /\ last.op \in {"execute", "rollback"}
         /\ last.arg.ctor \in {"TurnLeft", "TurnRight"} )
          => OnlyHeadingMayDiffer(robot, last.pre)
    /\ ( /\ last.op \in {"execute", "rollback"}
         /\ last.arg.ctor \in {"DownPen", "UpPen"} )
          => OnlyPenMayDiffer(robot, last.pre)

\* C24 happens: TurnRightCommand::new(3) was rolled back on a drawing robot at
\* the upper end of x, and turned it from Up to Right.
C24_Witness ==
    /\ last.op = "rollback"
    /\ last.arg = [ctor |-> "TurnRight", n |-> 3]
    /\ last.pre.drawing
    /\ last.pre.x = I32_MAX
    /\ last.pre.direction = "Up"
    /\ robot.direction = "Right"

\* C24 happens for move_forward: a drawing robot heading Left went from x = 0
\* to x = -1.
C24_WitnessMove ==
    /\ last.op = "move_forward"
    /\ last.res.ok
    /\ last.pre.drawing
    /\ last.pre.direction = "Left"
    /\ last.pre.x = 0
    /\ robot.x = -1

\* C24 happens for the pen: up_pen lifted the pen of a robot heading Down at
\* the lower end of y.
C24_WitnessPen ==
    /\ last.op = "up_pen"
    /\ last.pre.drawing
    /\ last.pre.direction = "Down"
    /\ last.pre.y = I32_MIN
    /\ ~robot.drawing

====
